---- MODULE Spec2Model ----
(***************************************************************************)
(* Model of the transaction engine of astrbot_plugin_token_wallet          *)
(* (src/eth.py, class EthereumService) together with the ledger node it    *)
(* talks to.  Every public operation of the service is a task; a task      *)
(* advances one node call at a time, so tasks of different callers         *)
(* interleave exactly at the calls to the node.                            *)
(*                                                                         *)
(* On top of it, the command layer (src/main.py, class EthWalletPlugin,    *)
(* with the wallets table of src/db.py): a command is a coroutine that     *)
(* gives up the event loop at each reply it yields, and calls the service  *)
(* synchronously in between.                                               *)
(***************************************************************************)
EXTENDS Integers, Sequences, FiniteSets, TLC

\* ------------------------------------------------------------------ bounds
NumTasks == 2       \* invocations of public operations in one behaviour
MaxAmount == 2      \* amounts requested are 1..MaxAmount
MaxEstimate == 1    \* gas estimates are 21000 .. 21000 + MaxEstimate
InitToken == 1      \* token balance of every account at the start
InitEth == 2        \* native balance of every account at the start
TxFee == 1          \* what a transaction costs its sender (gas times price)
MaxDay == 1         \* UTC days are 0..MaxDay

\* ------------------------------------------------------- program constants
NativeGasLimit == 21000   \* 'gas': 21000 of a native transfer

\* ------------------------------------------------------------- input sets
Tasks == 1..NumTasks
Owner == "O"                              \* the contract owner's account
\* Account.create(): the fresh account made for command t.
NewAccountNames == <<"N1", "N2", "N3">>
NewAccount(t) == NewAccountNames[t]
NewAccounts == {NewAccount(t) : t \in Tasks}
Accounts == {"O", "A", "B"} \cup NewAccounts   \* the accounts of the ledger
BadAddress == "bad_addr"                  \* a malformed address
GoodKeys == {"kO", "kA"}                  \* well-formed private keys callers pass
\* account.key.hex(): the private key of an account.
private_key(a) ==
    CASE a = "O" -> "kO" [] a = "A" -> "kA" [] a = "B" -> "kB"
      [] a = "N1" -> "kN1" [] a = "N2" -> "kN2" [] OTHER -> "kN3"
\* The keys the wallets table can store.
WalletKeys == {private_key(a) : a \in {"A", "B"} \cup NewAccounts}
BadKey == "bad_key"                       \* a malformed private key
Keys == GoodKeys \cup {BadKey}
\* The addresses callers pass.
Addresses == {Owner, "A", BadAddress}
Amounts == 1..MaxAmount
\* A contract call costs at least the 21000 of a plain transaction.
GasEstimates == {NativeGasLimit + i : i \in 0..MaxEstimate}

WriteKinds == {"transfer_eth", "transfer_token", "mint_token", "burn_token"}
ContractKinds == {"transfer_token", "mint_token", "burn_token"}

\* The calls that go to the node over the network.
NetworkStages == {"balanceOf", "get_transaction_count", "gas_price",
                  "chain_id", "estimate_gas", "send_raw_transaction",
                  "wait_for_transaction_receipt"}
\* The stages of the write path, in the order of the code.
StageOrder == <<"get_transaction_count", "gas_price", "chain_id", "estimate_gas",
                "build_transaction", "sign_transaction", "send_raw_transaction",
                "wait_for_transaction_receipt">>

VARIABLES
    pc,        \* pc[t]: the node call task t is about to make, "idle" or "done"
    op,        \* op[t]: the public operation task t runs and its arguments
    nonce,     \* nonce[t]: the nonce read for t's transaction, -1 before
    gas,       \* gas[t]: [estimate, limit] of t's transaction
    balance,   \* balance[t]: what get_token_balance returned to t, -1 before
    hist,      \* hist[t]: what had happened when t read its nonce and signed
    calls,     \* calls[t]: the stages t has run so far, in order
    fault,     \* fault[t]: the stage of t that raised, "none" if none did
    observed,  \* observed[t]: what the library's receipt wait gave t
    result,    \* result[t]: what the operation returned or raised
    txCount,   \* node: txCount[a], transactions of a mined so far
    pool,      \* node: the broadcast transactions not yet mined (by task)
    receipt,   \* node: receipt[t] of t's transaction
    token,     \* contract: token[a], the token balance of a
    eth,       \* node: eth[a], the native balance of a
    plugin,    \* the plugin object after __init__, and what it was built from
    wallets,   \* the wallets table: wallets[u], the row of user u
    today,     \* the current UTC day
    cmd,       \* cmd[t]: the command whose handler runs as t, and its locals
    reply,     \* reply[t]: the replies the handler has yielded, in order
    loop       \* the handler running on the event loop, 0 when it is free

pluginVars == <<plugin, wallets, today, cmd, reply, loop>>

vars == <<pc, op, nonce, gas, balance, hist, calls, fault, observed, result,
          txCount, pool, receipt, token, eth, plugin, wallets, today, cmd, reply, loop>>

\* ---------------------------------------------------------------- helpers
\* An argument is recorded in op[t] when the operation first reads it; until
\* then no step depends on it, and it is Unread (amount 0, wait FALSE).
Unread == "unread"
NoOp == [kind |-> "none", key |-> Unread, to |-> Unread, amount |-> 0, wait |-> FALSE]
NoResult == [status |-> "none", err |-> "none", reason |-> "none", cause |-> "none", value |-> -1]
NoGas == [estimate |-> 0, limit |-> 0]
\* mined: the sender's mined transactions when t read its nonce; failed: the
\* nonces of the sender's operations that had failed before broadcast by
\* then; sent: the nonces of the sender's transactions broadcast before t
\* signed; funds: the sender's native balance when t's transaction was
\* handed to the node.
NoHist == [mined |-> -1, failed |-> {}, sent |-> {}, funds |-> -1]

\* ---- the plugin's construction (main.py __init__, eth.py __init__)
Users == {"u1", "u2", "u3"}
\* The row Wallet(qq_id, eth_address, eth_private_key) of a registered user.
WalletAddress(u) == wallets[u].address
WalletKey(u) == private_key(wallets[u].address)

\* registration_gas_fee_eth is nothing, or what one transaction costs.
Configs == [rpc_node_url : {"url", ""},
            contract_address : {"contract", "", BadAddress},
            owner_private_key : {"kO", ""},
            registration_gas_fee_eth : {0, TxFee}]
GoodConfig == [rpc_node_url |-> "url", contract_address |-> "contract",
               owner_private_key |-> "kO", registration_gas_fee_eth |-> TxFee]

\* Mutant of EthereumService: the node is not probed at construction.
EthereumServiceNoProbe(rpc_url, contract_address, reachable) ==
    IF rpc_url = "" \/ contract_address = "" THEN "ValueError"
    ELSE IF contract_address = BadAddress THEN "InvalidAddress"
    ELSE "ok"

\* EthereumService(rpc_url, contract_address): "ok" when the object is
\* built, else the exception __init__ raises.
EthereumService(rpc_url, contract_address, reachable) ==
    IF rpc_url = "" \/ contract_address = "" THEN "ValueError"
    ELSE IF ~reachable THEN "ConnectionError"
    ELSE IF contract_address = BadAddress THEN "InvalidAddress"
    ELSE "ok"

\* DatabaseManager(db_url): create_engine and create_all work, or raise.
DatabaseManager(db_ok) == IF db_ok THEN "ok" ELSE "DatabaseError"

\* EthWalletPlugin(context, config): both attributes start as None; the
\* service is built first, the database manager only after it; whatever
\* is raised is logged and swallowed.
EthWalletPlugin(config, reachable, db_ok) ==
    LET e == EthereumService(config.rpc_node_url, config.contract_address, reachable)
        d == IF e = "ok" THEN DatabaseManager(db_ok) ELSE "not_run"
        raised == IF e # "ok" THEN e ELSE IF d # "ok" THEN d ELSE "none"
    IN [config |-> config, reachable |-> reachable, db_ok |-> db_ok,
        eth_service |-> (e = "ok"), db_manager |-> (d = "ok"),
        raised |-> raised,
        log |-> IF raised = "none" THEN "info_loaded"
                ELSE IF raised = "ConnectionError" THEN "critical_cannot_connect"
                ELSE "error_load_failed"]

\* The arguments an operation reads late are those its caller passed: any,
\* from a caller outside; a command's own to and amount, with the default
\* wait_for_receipt=True, from a command handler.
NoCmd == [kind |-> "none", user |-> "none", target |-> "none", to |-> Unread,
          amount |-> 0, key |-> Unread, day |-> -1, at |-> "none"]
ByCommand(t) == cmd[t].kind # "none"
ToChoices(t) == IF ByCommand(t) THEN {cmd[t].to} ELSE Addresses
AmountChoices(t) == IF ByCommand(t) THEN {cmd[t].amount} ELSE Amounts
WaitChoices(t) == IF ByCommand(t) THEN {TRUE} ELSE BOOLEAN

\* Account.from_key(key).address
from_key(key) ==
    IF \E a \in Accounts : private_key(a) = key
    THEN CHOOSE a \in Accounts : private_key(a) = key
    ELSE "A"
ValidKey(key) == key \in GoodKeys \cup WalletKeys
\* w3.to_checksum_address(address) succeeds
ValidAddress(a) == a \in Accounts

Sender(t) == from_key(op[t].key)

\* A normal return of value v (a transaction hash is the task's number).
Returned(v) == [status |-> "ok", err |-> "none", reason |-> "none", cause |-> "none", value |-> v]
\* An exception of class err; reason is the message template, cause the
\* exception it wraps.
Raised(err, reason, cause) ==
    [status |-> "error", err |-> err, reason |-> reason, cause |-> cause, value |-> -1]

Count(s, x) == Cardinality({i \in DOMAIN s : s[i] = x})
NetworkCalls(t) == {i \in DOMAIN calls[t] : calls[t][i] \in NetworkStages}

\* The wallets table at the start: u1 and u2 are registered and have not
\* checked in yet (last_check_in is NULL, here -1); u3 is not registered.
NoWallets == [u \in Users |->
                 [registered |-> u \in {"u1", "u2"}, last_check_in |-> -1,
                  address |-> IF u = "u1" THEN "A" ELSE IF u = "u2" THEN "B" ELSE "none"]]

\* Nothing has been called yet; the node and the contract are fresh.
NodeInit ==
    /\ pc = [t \in Tasks |-> "idle"]
    /\ op = [t \in Tasks |-> NoOp]
    /\ nonce = [t \in Tasks |-> -1]
    /\ gas = [t \in Tasks |-> NoGas]
    /\ balance = [t \in Tasks |-> -1]
    /\ hist = [t \in Tasks |-> NoHist]
    /\ calls = [t \in Tasks |-> <<>>]
    /\ fault = [t \in Tasks |-> "none"]
    /\ observed = [t \in Tasks |-> "none"]
    /\ result = [t \in Tasks |-> NoResult]
    /\ txCount = [a \in Accounts |-> 0]
    /\ pool = {}
    /\ receipt = [t \in Tasks |-> "none"]
    /\ token = [a \in Accounts |-> IF a \in NewAccounts THEN 0 ELSE InitToken]
    /\ eth = [a \in Accounts |-> IF a \in NewAccounts THEN 0
                                  ELSE IF a = Owner THEN 2 * InitEth ELSE InitEth]

\* No command has arrived yet.
CommandsInit ==
    /\ wallets = NoWallets
    /\ today = 0
    /\ cmd = [t \in Tasks |-> NoCmd]
    /\ reply = [t \in Tasks |-> <<>>]
    /\ loop = 0

\* The service constructed against a reachable node.
Init ==
    /\ NodeInit
    /\ CommandsInit
    /\ plugin = EthWalletPlugin(GoodConfig, TRUE, TRUE)

\* The plugin constructed from any configuration, in any environment.
PluginInit ==
    /\ NodeInit
    /\ CommandsInit
    /\ \E config \in Configs, reachable \in BOOLEAN, db_ok \in BOOLEAN :
          plugin = EthWalletPlugin(config, reachable, db_ok)

\* ------------------------------------------------- task bookkeeping steps
\* Task t runs stages ss (in order) and goes on to node call next.
Advance(t, ss, next) ==
    /\ calls' = [calls EXCEPT ![t] = calls[t] \o ss]
    /\ pc' = [pc EXCEPT ![t] = next]

\* Task t runs stages ss, the last of which raises r: the exception leaves
\* the operation (no function of the write path has a handler).
Abort(t, ss, r) ==
    /\ calls' = [calls EXCEPT ![t] = calls[t] \o ss]
    /\ fault' = [fault EXCEPT ![t] = ss[Len(ss)]]
    /\ result' = [result EXCEPT ![t] = r]
    /\ pc' = [pc EXCEPT ![t] = "done"]

\* Task t returns r to its caller.
Finish(t, ss, r) ==
    /\ calls' = [calls EXCEPT ![t] = calls[t] \o ss]
    /\ result' = [result EXCEPT ![t] = r]
    /\ pc' = [pc EXCEPT ![t] = "done"]

Start(t, kind, key, to, amount) ==
    /\ pc[t] = "idle"
    /\ op' = [op EXCEPT ![t] = [kind |-> kind, key |-> key, to |-> to,
                                amount |-> amount, wait |-> FALSE]]

NodeUnchanged == UNCHANGED <<txCount, pool, receipt, token, eth>>

\* ------------------------------------------------------ the ledger node
\* Mutant of get_transaction_count: the count includes the account's
\* transactions still pending in the pool (block "pending").
get_transaction_count_pending(a) ==
    txCount[a] + Cardinality({u \in pool : from_key(op[u].key) = a})

\* w3.eth.get_transaction_count(address): the default block is "latest", so
\* the node answers with the number of MINED transactions of the account.
get_transaction_count(a) == txCount[a]

\* The contract's transfer / mint / burn run on balances tok by account from.
Reverts(kind, from, amount, tok) ==
    CASE kind = "transfer_token" -> tok[from] < amount
      [] kind = "burn_token" -> tok[from] < amount
      [] kind = "mint_token" -> from # Owner
      [] OTHER -> FALSE

Applied(kind, from, to, amount, tok) ==
    CASE kind = "transfer_token" ->
            [a \in Accounts |-> tok[a] - (IF a = from THEN amount ELSE 0)
                                       + (IF a = to THEN amount ELSE 0)]
      [] kind = "burn_token" -> [tok EXCEPT ![from] = tok[from] - amount]
      [] kind = "mint_token" -> [tok EXCEPT ![to] = tok[to] + amount]
      [] OTHER -> tok

\* What the sender must hold for t's transaction: the fee, and the value of
\* a native transfer.
Cost(t) == TxFee + (IF op[t].kind = "transfer_eth" THEN op[t].amount ELSE 0)

\* The node mines the pending transaction of task t: it is the next one of
\* its sender.  The call runs to its end, or it reverts: by the contract's
\* own rules, or for a cause outside the model (it runs out of gas, the
\* chain's state has moved).  Pending transactions of the sender with the
\* same nonce can no longer be mined and leave the pool without a receipt.
Mine(t) ==
    /\ t \in pool
    /\ nonce[t] = txCount[Sender(t)]
    /\ eth[Sender(t)] >= Cost(t)
    /\ \E runs \in BOOLEAN :
       LET k == op[t].kind
           bad == Reverts(k, Sender(t), op[t].amount, token) \/ ~runs
           value == IF k = "transfer_eth" /\ ~bad THEN op[t].amount ELSE 0
       IN /\ receipt' = [receipt EXCEPT ![t] = IF bad THEN "status0" ELSE "status1"]
          /\ token' = IF bad THEN token
                      ELSE Applied(k, Sender(t), op[t].to, op[t].amount, token)
          /\ eth' = [a \in Accounts |->
                       eth[a] - (IF a = Sender(t) THEN TxFee + value ELSE 0)
                              + (IF a = op[t].to THEN value ELSE 0)]
    /\ txCount' = [txCount EXCEPT ![Sender(t)] = txCount[Sender(t)] + 1]
    /\ pool' = {u \in pool : ~(Sender(u) = Sender(t) /\ nonce[u] <= nonce[t])}
    /\ UNCHANGED <<pc, op, nonce, gas, balance, hist, calls, fault, observed, result>>
    /\ UNCHANGED pluginVars

\* What w3.eth.wait_for_transaction_receipt can give for t's transaction: the
\* receipt once it is mined; while there is none, the timeout elapses (the
\* library raises TimeExhausted, or TransactionNotFound in builds that let
\* the lookup error through; a transport error takes the same handler as
\* TimeExhausted).
LibraryWaitOutcomes(t) ==
    IF receipt[t] # "none" THEN {receipt[t]}
    ELSE {"TimeExhausted", "TransactionNotFound"}

\* ------------------------------------------------------------ eth.py
NodeError == Raised("NodeError", "transport", "none")

\* Mutant of WaitBody: the receipt's status is not looked at.
WaitBodyNoStatusCheck(h, lib) ==
    IF lib \in {"status1", "status0"} THEN Returned(h)
    ELSE Raised(lib, "library", "none")

\* The body of the try block: the receipt, or what is raised in it.
WaitBody(h, lib) ==
    IF lib = "status1" THEN Returned(h)
    ELSE IF lib = "status0" THEN Raised("TransactionFailedError", "status0", "none")
    ELSE Raised(lib, "library", "none")

\* The except clauses, tried in order on what the try block raised.
WaitHandlers(r) ==
    IF r.status # "error" THEN r
    ELSE IF r.err = "TransactionNotFound"
         THEN Raised("TransactionFailedError", "not_found_after_timeout", r.err)
    ELSE Raised("TransactionFailedError", "unknown_error",
                IF r.err = "TransactionFailedError" THEN r.reason ELSE r.err)

wait_for_transaction_receipt(h, lib) == WaitHandlers(WaitBody(h, lib))

\* Mutant of GasLimit: the estimate is used without the buffer.
GasLimitNoBuffer(e) == e

\* tx_params['gas'] = int(gas_estimate * 1.2).  The double nearest 1.2 lies
\* below 1.2 by less than 5e-17, so for every estimate below 2^50 the product
\* rounds to 6e/5 when that is an integer and keeps its fraction otherwise:
\* int() gives the integer part of 6e/5.
GasLimit(e) == (e * 12) \div 10

\* ---- what the tasks have done so far
IsWrite(t) == op[t].kind \in WriteKinds
Acquired(t) == nonce[t] # -1
Signed(t) == Count(calls[t], "sign_transaction") > 0
\* The node took t's transaction into its pool.
Broadcast(t) ==
    Count(calls[t], "send_raw_transaction") > 0 /\ fault[t] # "send_raw_transaction"
\* t read a nonce and then failed before anything was broadcast.
FailedBeforeBroadcast(t) ==
    Acquired(t) /\ pc[t] = "done" /\ result[t].status = "error" /\ ~Broadcast(t)
FailedNonces(a) ==
    {nonce[u] : u \in {v \in Tasks : FailedBeforeBroadcast(v) /\ Sender(v) = a}}
SentNonces(a) ==
    {nonce[u] : u \in {v \in Tasks : Broadcast(v) /\ Sender(v) = a}}

\* ---- the public operations, up to their first call to the node

\* transfer_eth: Account.from_key, then the transaction dictionary is built
\* entry by entry: 'to' is normalised and 'value' converted before 'nonce'
\* is read from the node.
transfer_eth(t, key, to, amount) ==
    IF ~ValidKey(key)
    THEN /\ Start(t, "transfer_eth", key, Unread, 0)
         /\ Abort(t, <<"from_key">>, Raised("InvalidKey", "malformed", "none"))
    ELSE IF ~ValidAddress(to)
    THEN /\ Start(t, "transfer_eth", key, to, 0)
         /\ Abort(t, <<"from_key", "to_checksum_address">>,
                  Raised("InvalidAddress", "malformed", "none"))
    ELSE /\ Start(t, "transfer_eth", key, to, amount)
         /\ Advance(t, <<"from_key", "to_checksum_address">>, "get_transaction_count")
         /\ UNCHANGED <<fault, result>>

\* transfer_token: Account.from_key, then get_token_balance of the sender.
transfer_token(t, key) ==
    /\ Start(t, "transfer_token", key, Unread, 0)
    /\ IF ~ValidKey(key)
       THEN Abort(t, <<"from_key">>, Raised("InvalidKey", "malformed", "none"))
       ELSE /\ Advance(t, <<"from_key">>, "balanceOf")
            /\ UNCHANGED <<fault, result>>

\* Mutant of mint_token: the recipient is normalised, then the sender's
\* token balance is read and compared as in transfer_token.
mint_token_with_precheck(t, key, to, amount) ==
    /\ Start(t, "mint_token", key, to, amount)
    /\ ValidAddress(to) /\ ValidKey(key)
    /\ Advance(t, <<"to_checksum_address", "from_key">>, "balanceOf")
    /\ UNCHANGED <<fault, result>>

\* mint_token: the recipient is normalised when the call is built, then
\* _execute_contract_transaction starts with Account.from_key.
mint_token(t, key, to, amount) ==
    IF ~ValidAddress(to)
    THEN /\ Start(t, "mint_token", Unread, to, 0)
         /\ Abort(t, <<"to_checksum_address">>,
                  Raised("InvalidAddress", "malformed", "none"))
    ELSE IF ~ValidKey(key)
    THEN /\ Start(t, "mint_token", key, to, amount)
         /\ Abort(t, <<"to_checksum_address", "from_key">>,
                  Raised("InvalidKey", "malformed", "none"))
    ELSE /\ Start(t, "mint_token", key, to, amount)
         /\ Advance(t, <<"to_checksum_address", "from_key">>, "get_transaction_count")
         /\ UNCHANGED <<fault, result>>

\* burn_token: Account.from_key, then get_token_balance of the caller.
burn_token(t, key) ==
    /\ Start(t, "burn_token", key, Unread, 0)
    /\ IF ~ValidKey(key)
       THEN Abort(t, <<"from_key">>, Raised("InvalidKey", "malformed", "none"))
       ELSE /\ Advance(t, <<"from_key">>, "balanceOf")
            /\ UNCHANGED <<fault, result>>

\* get_token_balance(address) as a public operation: the address is
\* normalised inside the try block, so a malformed one is re-raised as
\* EthereumServiceError.
get_token_balance(t, address) ==
    /\ Start(t, "get_token_balance", Unread, address, 0)
    /\ IF ~ValidAddress(address)
       THEN Abort(t, <<"to_checksum_address">>,
                  Raised("EthereumServiceError", "balance_query_failed", "InvalidAddress"))
       ELSE /\ Advance(t, <<"to_checksum_address">>, "balanceOf")
            /\ UNCHANGED <<fault, result>>

\* A public operation is called: the steps up to its first node call.
Call(t) ==
    /\ \/ \E key \in Keys, to \in Addresses, amount \in Amounts :
             \/ transfer_eth(t, key, to, amount)
             \/ mint_token(t, key, to, amount)
       \/ \E key \in Keys :
             \/ transfer_token(t, key)
             \/ burn_token(t, key)
       \/ \E address \in Addresses : get_token_balance(t, address)
    /\ UNCHANGED <<nonce, gas, balance, hist, observed>>
    /\ NodeUnchanged
    /\ UNCHANGED pluginVars

\* Whose balance the balanceOf call of task t asks for.
BalanceSubject(t) ==
    IF op[t].kind = "get_token_balance" THEN op[t].to ELSE Sender(t)

\* Mutant of PreFlight: the balance is read but not compared with amount.
PreFlightNoCheck(t, bal, to, amount) ==
    /\ op' = [op EXCEPT ![t].amount = amount, ![t].to = Owner]
    /\ Advance(t, <<"balanceOf", "from_key">>, "get_transaction_count")
    /\ UNCHANGED <<fault, result>>

\* transfer_token / burn_token after get_token_balance returned bal: the
\* pre-flight check against amount, then (transfer only) the recipient to is
\* normalised, then _execute_contract_transaction starts.
PreFlight(t, bal, to, amount) ==
    IF bal < amount
    THEN /\ op' = [op EXCEPT ![t].amount = amount]
         /\ Abort(t, <<"balanceOf", "balance_check">>,
                  Raised("InsufficientFundsError", "insufficient_token_balance", "none"))
    ELSE IF op[t].kind = "transfer_token" /\ ~ValidAddress(to)
    THEN /\ op' = [op EXCEPT ![t].amount = amount, ![t].to = to]
         /\ Abort(t, <<"balanceOf", "balance_check", "to_checksum_address">>,
                  Raised("InvalidAddress", "malformed", "none"))
    ELSE /\ op' = [op EXCEPT ![t].amount = amount,
                             ![t].to = IF op[t].kind = "transfer_token" THEN to ELSE Unread]
         /\ Advance(t, <<"balanceOf", "balance_check">>
                       \o (IF op[t].kind = "transfer_token"
                           THEN <<"to_checksum_address">> ELSE <<>>)
                       \o <<"from_key">>,
                    "get_transaction_count")
         /\ UNCHANGED <<fault, result>>

\* contract.functions.balanceOf(address).call(): answered by the node, or
\* the call fails and get_token_balance raises EthereumServiceError.
balanceOf(t) ==
    /\ pc[t] = "balanceOf"
    /\ \/ /\ op[t].kind = "get_token_balance"
          /\ Finish(t, <<"balanceOf">>, Returned(token[BalanceSubject(t)]))
          /\ UNCHANGED <<op, fault, balance>>
       \/ /\ op[t].kind # "get_token_balance"
          /\ balance' = [balance EXCEPT ![t] = token[BalanceSubject(t)]]
          /\ \E to \in ToChoices(t), amount \in AmountChoices(t) :
                PreFlight(t, token[BalanceSubject(t)], to, amount)
       \/ /\ Abort(t, <<"balanceOf">>,
                   Raised("EthereumServiceError", "balance_query_failed", "NodeError"))
          /\ UNCHANGED <<op, balance>>
    /\ UNCHANGED <<nonce, gas, hist, observed>>
    /\ NodeUnchanged
    /\ UNCHANGED pluginVars

\* ---- the write path shared by the four write operations
\* (transfer_eth lines 121-139, _execute_contract_transaction lines 176-202)

\* Mutant of TxParams: the node is asked for a gas estimate for a native
\* transfer as well.
TxParamsEstimatesNative(t) ==
    /\ pc[t] = "get_transaction_count"
    /\ nonce' = [nonce EXCEPT ![t] = get_transaction_count(Sender(t))]
    /\ hist' = [hist EXCEPT ![t].mined = txCount[Sender(t)],
                            ![t].failed = FailedNonces(Sender(t))]
    /\ Advance(t, <<"get_transaction_count", "gas_price", "chain_id">>, "estimate_gas")
    /\ UNCHANGED <<op, gas, balance, observed, fault, result>>
    /\ NodeUnchanged
    /\ UNCHANGED pluginVars

\* The three node reads that fill the transaction's parameters, in the
\* order of the code: 'nonce' (get_transaction_count), 'gasPrice'
\* (gas_price), 'chainId' (chain_id).  Only the first reads state another
\* task or the node changes, so the three are one step; each may fail.
\* A native transfer has its dictionary complete after them ('gas': 21000)
\* and is signed; a contract call goes on to the gas estimate.
TxParams(t) ==
    /\ pc[t] = "get_transaction_count"
    /\ \/ /\ nonce' = [nonce EXCEPT ![t] = get_transaction_count(Sender(t))]
          /\ IF op[t].kind = "transfer_eth"
             THEN /\ gas' = [gas EXCEPT ![t] = [estimate |-> 0, limit |-> NativeGasLimit]]
                  /\ hist' = [hist EXCEPT ![t] = [mined |-> txCount[Sender(t)],
                                                  failed |-> FailedNonces(Sender(t)),
                                                  sent |-> SentNonces(Sender(t)),
                                                  funds |-> -1]]
                  /\ Advance(t, <<"get_transaction_count", "gas_price", "chain_id",
                                  "build_transaction", "sign_transaction">>,
                             "send_raw_transaction")
             ELSE /\ Advance(t, <<"get_transaction_count", "gas_price", "chain_id">>,
                             "estimate_gas")
                  /\ hist' = [hist EXCEPT ![t].mined = txCount[Sender(t)],
                                          ![t].failed = FailedNonces(Sender(t))]
                  /\ UNCHANGED gas
          /\ UNCHANGED <<fault, result>>
       \/ /\ Abort(t, <<"get_transaction_count">>, NodeError)
          /\ UNCHANGED <<nonce, gas, hist>>
       \/ /\ nonce' = [nonce EXCEPT ![t] = get_transaction_count(Sender(t))]
          /\ hist' = [hist EXCEPT ![t].mined = txCount[Sender(t)],
                                  ![t].failed = FailedNonces(Sender(t))]
          /\ \/ Abort(t, <<"get_transaction_count", "gas_price">>, NodeError)
             \/ Abort(t, <<"get_transaction_count", "gas_price", "chain_id">>, NodeError)
          /\ UNCHANGED gas
    /\ UNCHANGED <<op, balance, observed>>
    /\ NodeUnchanged
    /\ UNCHANGED pluginVars

\* Mutant of EstimateGas: a reverted estimate is noted and the transaction
\* is built and signed all the same, with the smallest limit.
EstimateGasIgnoresRevert(t) ==
    /\ pc[t] = "estimate_gas"
    /\ gas' = [gas EXCEPT ![t] = [estimate |-> NativeGasLimit, limit |-> NativeGasLimit]]
    /\ hist' = [hist EXCEPT ![t].sent = SentNonces(Sender(t))]
    /\ fault' = [fault EXCEPT ![t] =
                   IF Reverts(op[t].kind, Sender(t), op[t].amount, token)
                   THEN "estimate_gas" ELSE "none"]
    /\ Advance(t, <<"estimate_gas", "build_transaction", "sign_transaction">>,
               "send_raw_transaction")
    /\ UNCHANGED <<op, nonce, balance, observed, result>>
    /\ NodeUnchanged
    /\ UNCHANGED pluginVars

\* function_call.estimate_gas(tx_params): the node simulates the call on its
\* current state and reports e, or the simulation reverts, or the call
\* fails.  Then the limit is computed and the transaction built and signed.
EstimateGas(t) ==
    /\ pc[t] = "estimate_gas"
    /\ \/ /\ ~Reverts(op[t].kind, Sender(t), op[t].amount, token)
          /\ \E e \in GasEstimates :
                gas' = [gas EXCEPT ![t] = [estimate |-> e, limit |-> GasLimit(e)]]
          /\ hist' = [hist EXCEPT ![t].sent = SentNonces(Sender(t))]
          /\ Advance(t, <<"estimate_gas", "build_transaction", "sign_transaction">>,
                     "send_raw_transaction")
          /\ UNCHANGED <<fault, result>>
       \/ /\ Reverts(op[t].kind, Sender(t), op[t].amount, token)
          /\ Abort(t, <<"estimate_gas">>,
                   Raised("ContractLogicError", "execution_reverted", "none"))
          /\ UNCHANGED <<gas, hist>>
       \/ Abort(t, <<"estimate_gas">>, NodeError) /\ UNCHANGED <<gas, hist>>
    /\ UNCHANGED <<op, nonce, balance, observed>>
    /\ NodeUnchanged
    /\ UNCHANGED pluginVars

\* Mutant of SendRawTransaction: a refused transaction is sent again.
SendRawTransactionRetries(t) ==
    /\ pc[t] = "send_raw_transaction"
    /\ Count(calls[t], "send_raw_transaction") < 3
    /\ \/ /\ nonce[t] >= txCount[Sender(t)]
          /\ pool' = pool \cup {t}
          /\ Finish(t, <<"send_raw_transaction">>, Returned(t))
       \/ /\ Advance(t, <<"send_raw_transaction">>, "send_raw_transaction")
          /\ UNCHANGED <<pool, result>>
    /\ UNCHANGED <<op, nonce, gas, balance, hist, observed, fault, txCount, receipt,
                   token, eth>>
    /\ UNCHANGED pluginVars

\* Mutant of SendRawTransaction: the receipt is waited for whether or not
\* the caller asked for it.
SendRawTransactionAlwaysWaits(t) ==
    /\ pc[t] = "send_raw_transaction"
    /\ nonce[t] >= txCount[Sender(t)] /\ eth[Sender(t)] >= Cost(t)
    /\ hist' = [hist EXCEPT ![t].funds = eth[Sender(t)]]
    /\ pool' = pool \cup {t}
    /\ \E wait \in WaitChoices(t) : op' = [op EXCEPT ![t].wait = wait]
    /\ Advance(t, <<"send_raw_transaction">>, "wait_for_transaction_receipt")
    /\ UNCHANGED <<nonce, gas, balance, observed, fault, result, txCount, receipt,
                   token, eth>>
    /\ UNCHANGED pluginVars

\* self.w3.eth.send_raw_transaction(signed_tx.rawTransaction): the node takes
\* the transaction into its pool, or refuses it (always when its nonce is
\* already used up by a mined transaction, or when the sender's native
\* balance does not cover value and fee; the library raises the node's
\* answer as it is).  Without wait_for_receipt the hash is returned at once.
SendRawTransaction(t) ==
    /\ pc[t] = "send_raw_transaction"
    /\ hist' = [hist EXCEPT ![t].funds = eth[Sender(t)]]
    /\ \/ /\ nonce[t] >= txCount[Sender(t)]
          /\ eth[Sender(t)] >= Cost(t)
          /\ pool' = pool \cup {t}
          /\ \E wait \in WaitChoices(t) :
                /\ op' = [op EXCEPT ![t].wait = wait]
                /\ IF wait
                   THEN /\ Advance(t, <<"send_raw_transaction">>,
                                   "wait_for_transaction_receipt")
                        /\ UNCHANGED result
                   ELSE Finish(t, <<"send_raw_transaction">>, Returned(t))
          /\ UNCHANGED fault
       \/ /\ eth[Sender(t)] >= Cost(t)
          /\ Abort(t, <<"send_raw_transaction">>,
                   Raised("NodeError", "rejected", "none"))
          /\ UNCHANGED <<pool, op>>
       \/ /\ eth[Sender(t)] < Cost(t)
          /\ Abort(t, <<"send_raw_transaction">>,
                   Raised("NodeError", "insufficient_funds", "none"))
          /\ UNCHANGED <<pool, op>>
    /\ UNCHANGED <<nonce, gas, balance, observed, txCount, receipt, token, eth>>
    /\ UNCHANGED pluginVars

\* if wait_for_receipt: self.wait_for_transaction_receipt(tx_hash); then
\* return tx_hash.
WaitForReceipt(t) ==
    /\ pc[t] = "wait_for_transaction_receipt"
    /\ \E lib \in LibraryWaitOutcomes(t) :
          LET w == wait_for_transaction_receipt(t, lib)
          IN /\ observed' = [observed EXCEPT ![t] = lib]
             /\ fault' = [fault EXCEPT ![t] =
                            IF lib = "status1" THEN "none"
                            ELSE "wait_for_transaction_receipt"]
             /\ Finish(t, <<"wait_for_transaction_receipt">>,
                       IF w.status = "error" THEN w ELSE Returned(t))
    /\ UNCHANGED <<op, nonce, gas, balance, hist>>
    /\ NodeUnchanged
    /\ UNCHANGED pluginVars

\* One step of task t, or of the node on t's transaction.
Step(t) ==
    \/ Call(t)
    \/ balanceOf(t)
    \/ TxParams(t)
    \/ EstimateGas(t)
    \/ SendRawTransaction(t)
    \/ WaitForReceipt(t)
    \/ Mine(t)

Next == \E t \in Tasks : Step(t)

\* Callers on several threads: the operations interleave at their node calls.
Spec == Init /\ [][Next]_vars

\* One invocation of a public operation, alone with the node.
Solo == Init /\ [][Step(1)]_vars

\* ============================================== the command layer (main.py)
\* A handler yields its replies; between two yields it runs without giving
\* up the event loop, through its synchronous calls to the service as well.
Say(t, r) == reply' = [reply EXCEPT ![t] = Append(reply[t], r)]
LastReply(t) == IF reply[t] = <<>> THEN "none" ELSE reply[t][Len(reply[t])]
\* The step makes no call to the service.
ServiceIdle ==
    /\ UNCHANGED <<pc, op, nonce, gas, balance, hist, calls, fault, observed, result>>
    /\ NodeUnchanged
\* The step enters an operation of the service, which keeps the loop.
ServiceEntered(t) ==
    /\ loop' = t
    /\ UNCHANGED <<nonce, gas, balance, hist, observed>>
    /\ NodeUnchanged
\* Command t arrives: commands are numbered in their order of arrival.
Arrives(t) ==
    /\ cmd[t].kind = "none" /\ pc[t] = "idle" /\ loop = 0
    /\ IF t = 1 THEN TRUE ELSE cmd[t - 1].kind # "none"
\* The handler resumes after the reply it yielded.
Resumes(t, kind) == cmd[t].kind = kind /\ cmd[t].at = "yielded" /\ loop = 0
\* The synchronous call of the handler has come back.
CameBack(t, kind) == cmd[t].kind = kind /\ cmd[t].at = "engine" /\ pc[t] = "done"
\* The handler replies r and returns.
Ends(t, c, r) == cmd' = [cmd EXCEPT ![t] = [c EXCEPT !.at = "done"]] /\ Say(t, r)
\* An exception leaves the handler: nothing is replied.
Crashes(t, c) == cmd' = [cmd EXCEPT ![t] = [c EXCEPT !.at = "crashed"]] /\ UNCHANGED reply
\* The handler yields r and waits to be resumed.
Yields(t, c, r) == cmd' = [cmd EXCEPT ![t] = [c EXCEPT !.at = "yielded"]] /\ Say(t, r)

\* The UTC date changes.
NextDay ==
    /\ today < MaxDay
    /\ today' = today + 1
    /\ UNCHANGED <<plugin, wallets, cmd, reply, loop>>
    /\ ServiceIdle

\* _get_check_in_reward(): an amount of the configured reward table.
Rewards == {InitToken}

\* ---- /签到: check_in_command, lines 261-275
check_in_command(t, u) ==
    /\ Arrives(t)
    /\ LET c == [NoCmd EXCEPT !.kind = "check_in", !.user = u]
       IN IF ~plugin.db_manager THEN Crashes(t, c)
          ELSE IF ~wallets[u].registered THEN Ends(t, c, "not_registered")
          ELSE IF wallets[u].last_check_in = today THEN Ends(t, c, "already_checked_in")
          ELSE \E reward_amount \in Rewards :
                  Yields(t, [c EXCEPT !.day = today, !.to = WalletAddress(u),
                                      !.amount = reward_amount], "checking_in")
    /\ UNCHANGED <<plugin, wallets, today, loop>>
    /\ ServiceIdle

\* lines 277-282: the owner key is looked up and mint_token is called.
check_in_reward(t) ==
    /\ Resumes(t, "check_in")
    /\ LET owner_pk == plugin.config.owner_private_key
       IN IF owner_pk = ""
          THEN Ends(t, cmd[t], "no_owner_key") /\ ServiceIdle /\ UNCHANGED loop
          ELSE IF ~plugin.eth_service
          THEN Ends(t, cmd[t], "check_in_failed") /\ ServiceIdle /\ UNCHANGED loop
          ELSE /\ mint_token(t, owner_pk, cmd[t].to, cmd[t].amount)
               /\ cmd' = [cmd EXCEPT ![t].at = "engine", ![t].key = owner_pk]
               /\ ServiceEntered(t)
               /\ UNCHANGED reply
    /\ UNCHANGED <<plugin, wallets, today>>

\* Mutant of check_in_commit: last_check_in is stamped and committed before
\* the outcome of mint_token is looked at.
check_in_commit_stamps_first(t) ==
    /\ CameBack(t, "check_in")
    /\ wallets' = [wallets EXCEPT ![cmd[t].user].last_check_in = today]
    /\ Ends(t, cmd[t], IF result[t].status = "ok" THEN "check_in_success"
                       ELSE "check_in_failed")
    /\ loop' = 0
    /\ UNCHANGED <<plugin, today>>
    /\ ServiceIdle

\* lines 282-292: mint_token returned, last_check_in is set to utcnow() and
\* committed (the commit can fail); whatever was raised is answered by a
\* rollback and the failure reply.
check_in_commit(t) ==
    /\ CameBack(t, "check_in")
    /\ \/ /\ result[t].status = "ok"
          /\ \/ /\ wallets' = [wallets EXCEPT ![cmd[t].user].last_check_in = today]
                /\ Ends(t, cmd[t], "check_in_success")
             \/ /\ UNCHANGED wallets
                /\ Ends(t, cmd[t], "check_in_failed")
       \/ /\ result[t].status = "error"
          /\ UNCHANGED wallets
          /\ Ends(t, cmd[t], "check_in_failed")
    /\ loop' = 0
    /\ UNCHANGED <<plugin, today>>
    /\ ServiceIdle

\* A field of cmd[t] is filled in when the handler first uses the value.
\* The amounts users type (int): negative, zero or positive.
CommandAmounts == -1..MaxAmount
\* The outside addresses users type: a well-formed one and a malformed one.
ExternalAddresses == {Owner, BadAddress}
\* Whom a message mentions: a user, or nobody.
Mentions == Users \cup {"nobody"}

\* Mutant of transfer_command: the amount is not validated.
transfer_command_any_amount(t, u, target, amount) ==
    /\ Arrives(t)
    /\ LET c == [NoCmd EXCEPT !.kind = "transfer"]
           cu == [c EXCEPT !.amount = amount, !.user = u, !.target = target]
       IN IF target = "nobody" THEN Ends(t, c, "mention_required")
          ELSE IF u = target THEN Ends(t, cu, "cannot_pay_yourself")
          ELSE Yields(t, cu, "preparing_transfer")
    /\ UNCHANGED <<plugin, wallets, today, loop>>
    /\ ServiceIdle

\* ---- /转账: transfer_command, lines 189-203
transfer_command(t, u, target, amount) ==
    /\ Arrives(t)
    /\ LET c == [NoCmd EXCEPT !.kind = "transfer"]
           ca == [c EXCEPT !.amount = amount]
           cu == [ca EXCEPT !.user = u, !.target = target]
       IN IF target = "nobody" THEN Ends(t, c, "mention_required")
          ELSE IF amount <= 0 THEN Ends(t, ca, "amount_not_positive")
          ELSE IF u = target THEN Ends(t, cu, "cannot_pay_yourself")
          ELSE Yields(t, cu, "preparing_transfer")
    /\ UNCHANGED <<plugin, wallets, today, loop>>
    /\ ServiceIdle

\* lines 205-217: both wallets are looked up and transfer_token is called.
transfer_lookup(t) ==
    /\ Resumes(t, "transfer")
    /\ IF ~plugin.db_manager
       THEN Crashes(t, cmd[t]) /\ ServiceIdle /\ UNCHANGED loop
       ELSE IF ~wallets[cmd[t].user].registered
       THEN Ends(t, cmd[t], "sender_not_registered") /\ ServiceIdle /\ UNCHANGED loop
       ELSE IF ~wallets[cmd[t].target].registered
       THEN Ends(t, cmd[t], "receiver_not_registered") /\ ServiceIdle /\ UNCHANGED loop
       ELSE IF ~plugin.eth_service
       THEN Ends(t, cmd[t], "transfer_failed_internal") /\ ServiceIdle /\ UNCHANGED loop
       ELSE /\ transfer_token(t, WalletKey(cmd[t].user))
            /\ cmd' = [cmd EXCEPT ![t].at = "engine",
                                   ![t].key = WalletKey(cmd[t].user),
                                   ![t].to = WalletAddress(cmd[t].target)]
            /\ ServiceEntered(t)
            /\ UNCHANGED reply
    /\ UNCHANGED <<plugin, wallets, today>>

\* lines 217-226: the reply chosen by the except clauses, in their order.
TransferReply(r) ==
    IF r.status = "ok" THEN "transfer_success"
    ELSE IF r.err = "InsufficientFundsError" THEN "transfer_insufficient_tokens"
    ELSE IF r.err = "TransactionFailedError" THEN "transfer_failed_on_chain_funds_returned"
    ELSE "transfer_failed_internal"

transfer_reply(t) ==
    /\ CameBack(t, "transfer")
    /\ Ends(t, cmd[t], TransferReply(result[t]))
    /\ loop' = 0
    /\ UNCHANGED <<plugin, wallets, today>>
    /\ ServiceIdle

\* ---- /提现: withdraw_command, lines 232-248
withdraw_command(t, u, amount, address) ==
    /\ Arrives(t)
    /\ LET c == [NoCmd EXCEPT !.kind = "withdraw"]
           ct == [c EXCEPT !.to = address]
           ca == [ct EXCEPT !.amount = amount]
           cu == [ca EXCEPT !.user = u]
       IN IF ~plugin.eth_service THEN Crashes(t, c)
          ELSE IF ~ValidAddress(address) THEN Ends(t, ct, "invalid_address")
          ELSE IF amount <= 0 THEN Ends(t, ca, "amount_not_positive")
          ELSE IF ~plugin.db_manager THEN Crashes(t, ca)
          ELSE IF ~wallets[u].registered THEN Ends(t, cu, "sender_not_registered")
          ELSE Yields(t, [cu EXCEPT !.key = WalletKey(u)], "withdrawing")
    /\ UNCHANGED <<plugin, wallets, today, loop>>
    /\ ServiceIdle

\* line 249: transfer_token is called with the key read before the yield.
withdraw_send(t) ==
    /\ Resumes(t, "withdraw")
    /\ transfer_token(t, cmd[t].key)
    /\ cmd' = [cmd EXCEPT ![t].at = "engine"]
    /\ ServiceEntered(t)
    /\ UNCHANGED <<plugin, wallets, today, reply>>

\* lines 250-255: the reply chosen by the except clauses.
WithdrawReply(r) ==
    IF r.status = "ok" THEN "withdraw_success"
    ELSE IF r.err = "InsufficientFundsError" THEN "withdraw_insufficient_tokens"
    ELSE "withdraw_failed_internal"

withdraw_reply(t) ==
    /\ CameBack(t, "withdraw")
    /\ Ends(t, cmd[t], WithdrawReply(result[t]))
    /\ loop' = 0
    /\ UNCHANGED <<plugin, wallets, today>>
    /\ ServiceIdle

\* ---- /注册: register_command, lines 91-104
register_command(t, u) ==
    /\ Arrives(t)
    /\ LET c == [NoCmd EXCEPT !.kind = "register"]
           cu == [c EXCEPT !.user = u]
       IN IF ~plugin.eth_service \/ ~plugin.db_manager THEN Ends(t, c, "init_failed")
          ELSE IF wallets[u].registered THEN Ends(t, cu, "already_registered")
          ELSE Yields(t, cu, "creating_account")
    /\ UNCHANGED <<plugin, wallets, today, loop>>
    /\ ServiceIdle

\* lines 114-122: session.add(new_wallet) and session.commit(). The commit
\* stores the row unless it raises, as it does when a row of the user (the
\* primary key) is there already; then lines 128-131 roll back.
RegisterStore(t, c) ==
    \/ /\ ~wallets[c.user].registered
       /\ wallets' = [wallets EXCEPT ![c.user] =
                         [registered |-> TRUE, last_check_in |-> -1, address |-> c.to]]
       /\ Ends(t, c, "register_success")
    \/ /\ UNCHANGED wallets
       /\ Ends(t, c, "register_failed_internal")

\* lines 106-112: the account is created; with an owner key and a positive
\* fee transfer_eth is called, else the row is stored at once.
register_fund(t) ==
    /\ Resumes(t, "register")
    /\ LET new_account == NewAccount(t)
           owner_pk == plugin.config.owner_private_key
           gas_fee == plugin.config.registration_gas_fee_eth
       IN IF owner_pk # "" /\ gas_fee > 0
          THEN /\ transfer_eth(t, owner_pk, new_account, gas_fee)
               /\ cmd' = [cmd EXCEPT ![t].at = "engine", ![t].key = owner_pk,
                                      ![t].to = new_account, ![t].amount = gas_fee]
               /\ ServiceEntered(t)
               /\ UNCHANGED <<reply, wallets>>
          ELSE /\ RegisterStore(t, [cmd[t] EXCEPT !.to = new_account])
               /\ ServiceIdle
               /\ UNCHANGED loop
    /\ UNCHANGED <<plugin, today>>

\* lines 124-131: the reply chosen by the except clauses, in their order.
RegisterFailure(r) ==
    IF r.err = "TransactionFailedError" THEN "register_failed_gas_transfer"
    ELSE "register_failed_internal"

\* Mutant of register_commit: the row is stored whatever transfer_eth did.
register_commit_ignores_failure(t) ==
    /\ CameBack(t, "register")
    /\ RegisterStore(t, cmd[t])
    /\ loop' = 0
    /\ UNCHANGED <<plugin, today>>
    /\ ServiceIdle

\* lines 111-133: transfer_eth came back; the row is stored when it returned,
\* and whatever it raised is answered by a rollback and a failure reply.
register_commit(t) ==
    /\ CameBack(t, "register")
    /\ IF result[t].status = "ok"
       THEN RegisterStore(t, cmd[t])
       ELSE UNCHANGED wallets /\ Ends(t, cmd[t], RegisterFailure(result[t]))
    /\ loop' = 0
    /\ UNCHANGED <<plugin, today>>
    /\ ServiceIdle

\* One step of the handler of command t, of the service call it is in, or
\* of the node on its transaction.
CommandStep(t) ==
    \/ \E u \in Users : register_command(t, u)
    \/ register_fund(t)
    \/ register_commit(t)
    \/ \E u \in Users : check_in_command(t, u)
    \/ check_in_reward(t)
    \/ check_in_commit(t)
    \/ \E u \in Users, target \in Mentions, amount \in CommandAmounts :
          transfer_command(t, u, target, amount)
    \/ transfer_lookup(t)
    \/ transfer_reply(t)
    \/ \E u \in Users, amount \in CommandAmounts, address \in ExternalAddresses :
          withdraw_command(t, u, amount, address)
    \/ withdraw_send(t)
    \/ withdraw_reply(t)
    \/ balanceOf(t)
    \/ TxParams(t)
    \/ EstimateGas(t)
    \/ SendRawTransaction(t)
    \/ WaitForReceipt(t)
    \/ Mine(t)

PluginNext == NextDay \/ \E t \in Tasks : CommandStep(t)

\* The plugin serving commands: handlers interleave at their yields.
Plugin == PluginInit /\ [][PluginNext]_vars

\* One command served by the plugin.
PluginSolo == PluginInit /\ [][NextDay \/ CommandStep(1)]_vars

\* ================================================================ claims
InFlight(t) == pc[t] \notin {"idle", "done"}
Done(t) == pc[t] = "done"
SetMin(S) == CHOOSE x \in S : \A y \in S : x <= y
SetMax(S) == CHOOSE x \in S : \A y \in S : x >= y

\* C1 (as claimed): write operations of one sending account that are in
\* flight at the same time hold pairwise distinct nonces, and these nonces
\* are consecutive integers.
C1_ConcurrentNoncesDistinctConsecutive ==
    \A a \in Accounts :
        LET S == {t \in Tasks : IsWrite(t) /\ InFlight(t) /\ Acquired(t) /\ Sender(t) = a}
            N == {nonce[t] : t \in S}
        IN /\ Cardinality(N) = Cardinality(S)
           /\ S # {} => \A n \in SetMin(N)..SetMax(N) : n \in N

\* C2 (as claimed): a transaction is never signed with a nonce that a
\* transaction of the same account, broadcast before the signing, carries.
C2_NoNonceReuseAfterBroadcast ==
    \A t \in Tasks : IsWrite(t) /\ Signed(t) => nonce[t] \notin hist[t].sent

\* C3 (as claimed): a write operation is assigned a nonce strictly greater
\* than the nonce of every earlier operation of the same account that failed
\* before broadcast.
C3_NonceIncreasesAfterFailure ==
    \A t \in Tasks :
        IsWrite(t) /\ Acquired(t) => \A n \in hist[t].failed : nonce[t] > n

\* C3 (amended): the nonce assigned is the number of transactions of the
\* account the node had mined when it was read; it is never below the nonce
\* of an earlier operation of the account that failed before broadcast, and
\* it is that nonce again when nothing of the account was mined in between.
C3_NonceFollowsNode ==
    \A t \in Tasks :
        IsWrite(t) /\ Acquired(t) =>
            /\ nonce[t] = hist[t].mined
            /\ \A n \in hist[t].failed :
                  /\ nonce[t] >= n
                  /\ hist[t].mined = n => nonce[t] = n

\* C3 witness: an operation failed before broadcast with nonce n (its gas
\* estimate reverted) and a later operation of the account read n again.
C3_Witness ==
    \E t, u \in Tasks :
        /\ t # u /\ IsWrite(t) /\ Acquired(t)
        /\ fault[u] = "estimate_gas" /\ FailedBeforeBroadcast(u)
        /\ nonce[u] \in hist[t].failed /\ nonce[t] = nonce[u]

\* What the library's wait gave when no success receipt was seen.
NoSuccessOutcomes == {"status0", "TimeExhausted", "TransactionNotFound"}
TimeoutOutcomes == {"TimeExhausted", "TransactionNotFound"}

\* C4: a write operation that waits for confirmation returns its hash only
\* when the wait saw a receipt with status success for that hash; a reverted
\* receipt, or no receipt at the timeout, ends it with TransactionFailedError.
C4_SuccessOnlyWithSuccessReceipt ==
    \A t \in Tasks :
        IsWrite(t) /\ Done(t) /\ op[t].wait =>
            /\ result[t].status = "ok" =>
                  /\ observed[t] = "status1" /\ receipt[t] = "status1"
                  /\ result[t].value = t
            /\ observed[t] \in NoSuccessOutcomes =>
                  /\ result[t].status = "error"
                  /\ result[t].err = "TransactionFailedError"

\* C4 witness: a waiting operation whose transaction was mined and reverted
\* ended with TransactionFailedError.
C4_Witness ==
    \E t \in Tasks :
        /\ IsWrite(t) /\ Done(t) /\ op[t].wait
        /\ observed[t] = "status0" /\ receipt[t] = "status0"
        /\ result[t].err = "TransactionFailedError"

\* The reason a caller can tell from the message of a TransactionFailedError.
ReasonCode(r) ==
    CASE r.reason = "status0" -> "reverted"
      [] r.reason = "not_found_after_timeout" -> "timeout"
      [] OTHER -> "unknown"

\* C5 (as claimed): the failure of the confirmation wait says "reverted" for
\* a reverted receipt and "timeout" when no receipt came before the timeout.
C5_ReasonDistinguishesOutcome ==
    \A t \in Tasks :
        IsWrite(t) /\ Done(t) /\ op[t].wait =>
            /\ observed[t] = "status0" => ReasonCode(result[t]) = "reverted"
            /\ observed[t] \in TimeoutOutcomes => ReasonCode(result[t]) = "timeout"

\* C6 (as claimed): when get_token_balance returned less than the amount,
\* transfer_token ends with InsufficientFundsError and has made no network
\* call at all.
C6_InsufficientFundsZeroNetworkCalls ==
    \A t \in Tasks :
        op[t].kind = "transfer_token" /\ balance[t] # -1 /\ op[t].amount > balance[t] =>
            /\ Done(t) /\ result[t].err = "InsufficientFundsError"
            /\ NetworkCalls(t) = {}

\* C6 (amended): when the balance read returned less than the amount,
\* transfer_token ends with InsufficientFundsError and the balance read is
\* the only network call it made: no nonce read, gas estimate or broadcast.
C6_InsufficientFundsOnlyBalanceRead ==
    \A t \in Tasks :
        op[t].kind = "transfer_token" /\ balance[t] # -1 /\ op[t].amount > balance[t] =>
            /\ Done(t) /\ result[t].err = "InsufficientFundsError"
            /\ calls[t] = <<"from_key", "balanceOf", "balance_check">>
            /\ ~Acquired(t) /\ ~Signed(t) /\ t \notin pool /\ receipt[t] = "none"

\* C6 witness: a transfer of 2 tokens from a balance of 1 was refused.
C6_Witness ==
    \E t \in Tasks :
        /\ op[t].kind = "transfer_token" /\ balance[t] = InitToken
        /\ op[t].amount = InitToken + 1
        /\ result[t].err = "InsufficientFundsError"

\* C7 (as claimed): the gas limit of a contract transaction is the estimate
\* times 1.2 rounded up, and at least the estimate.
C7_GasLimitIsCeiling ==
    \A t \in Tasks :
        op[t].kind \in ContractKinds /\ Signed(t) =>
            /\ gas[t].limit * 10 >= gas[t].estimate * 12
            /\ (gas[t].limit - 1) * 10 < gas[t].estimate * 12
            /\ gas[t].limit >= gas[t].estimate

\* C7 (amended): the gas limit of a contract transaction is the estimate
\* times 1.2 rounded down, and at least the estimate.
C7_GasLimitIsFloor ==
    \A t \in Tasks :
        op[t].kind \in ContractKinds /\ Signed(t) =>
            /\ gas[t].estimate \in GasEstimates
            /\ gas[t].limit * 10 <= gas[t].estimate * 12
            /\ (gas[t].limit + 1) * 10 > gas[t].estimate * 12
            /\ gas[t].limit >= gas[t].estimate

\* C7 witness: a broadcast contract transaction whose estimate times 1.2 is
\* not an integer (21001 gives 25201.2) carries the limit 25201.
C7_Witness ==
    \E t \in Tasks :
        /\ op[t].kind \in ContractKinds /\ Broadcast(t)
        /\ gas[t].estimate = NativeGasLimit + 1
        /\ gas[t].limit = 25201

IsPrefix(s, full) == Len(s) <= Len(full) /\ \A i \in 1..Len(s) : s[i] = full[i]
IsStage(x) == \E i \in DOMAIN StageOrder : StageOrder[i] = x
\* The stages an operation of this kind runs when nothing fails.
StagesOf(kind) ==
    IF kind = "transfer_eth"
    THEN SelectSeq(StageOrder, LAMBDA x : x # "estimate_gas")
    ELSE StageOrder

\* C8: the write-path stages a write operation has run are an initial part,
\* in order, of nonce read, gas price, chain id, gas estimate (contract calls
\* only), build, sign, broadcast, wait; the stage that raised is the last
\* stage run, and the operation is over; after a failed nonce read or gas
\* estimate nothing is signed or broadcast.
C8_StagesInOrderAbortOnError ==
    \A t \in Tasks :
        IsWrite(t) =>
            /\ IsPrefix(SelectSeq(calls[t], IsStage), StagesOf(op[t].kind))
            /\ fault[t] # "none" =>
                  /\ Done(t)
                  /\ calls[t][Len(calls[t])] = fault[t]
            /\ fault[t] \in {"get_transaction_count", "gas_price", "chain_id",
                            "estimate_gas"} =>
                  ~Signed(t) /\ ~Broadcast(t) /\ t \notin pool /\ receipt[t] = "none"

\* C8 witness: the gas estimate of a contract call reverted after the nonce
\* was read, and the operation ended there.
C8_Witness ==
    \E t \in Tasks :
        /\ IsWrite(t) /\ fault[t] = "estimate_gas"
        /\ result[t].err = "ContractLogicError"
        /\ Acquired(t) /\ Done(t)

\* C9: within one write operation every stage runs at most once (at most one
\* transaction is signed and at most one broadcast is sent), and when a stage
\* raised, the operation ended with an error for its caller.
C9_NoRetryErrorsReachCaller ==
    \A t \in Tasks :
        IsWrite(t) =>
            /\ \A i \in DOMAIN StageOrder : Count(calls[t], StageOrder[i]) <= 1
            /\ fault[t] # "none" => Done(t) /\ result[t].status = "error"

\* C9 witness: the node refused a broadcast; it was sent once and the
\* operation ended with the error.
C9_Witness ==
    \E t \in Tasks :
        /\ IsWrite(t) /\ fault[t] = "send_raw_transaction"
        /\ Count(calls[t], "send_raw_transaction") = 1
        /\ result[t].status = "error" /\ Done(t)

\* C10 (as claimed): an operation given a malformed private key or address
\* ends with an error and has made no network call.
C10_MalformedRejectedBeforeNetwork ==
    \A t \in Tasks :
        (op[t].key = BadKey \/ op[t].to = BadAddress) =>
            /\ Done(t) /\ result[t].status = "error"
            /\ NetworkCalls(t) = {}

\* The exception classes of the service (EthereumServiceError and its
\* subclasses).
DomainErrors == {"EthereumServiceError", "ConnectionError", "InsufficientFundsError",
                 "TransactionFailedError"}

\* A native transfer that got as far as the broadcast with an amount above
\* the sender's native balance.
Overdrawn(t) ==
    /\ op[t].kind = "transfer_eth" /\ Done(t)
    /\ hist[t].funds # -1 /\ op[t].amount > hist[t].funds

\* C11 (as claimed): a native transfer of more than the sender's native
\* balance is given a nonce, signed and handed to the node, the node refuses
\* it at the broadcast, and the operation ends with one of the service's
\* own error classes, never with a hash.
C11_OverdrawnTransferFailsWithDomainError ==
    \A t \in Tasks :
        Overdrawn(t) =>
            /\ Acquired(t) /\ Signed(t)
            /\ Count(calls[t], "send_raw_transaction") = 1
            /\ fault[t] = "send_raw_transaction"
            /\ result[t].status = "error"
            /\ result[t].err \in DomainErrors

\* C12: a transfer_token call that waits, made alone on the ledger by an
\* account whose balance read a covers the amount: when the wait sees the
\* success receipt the call returns the transaction's hash; when it returns
\* the hash, the transaction was mined with status success from a sender who
\* could pay the fee, the sender holds a - amount and the recipient its
\* earlier balance + amount (a sender paying itself keeps a).
C12_TransferMovesTokens ==
    \A t \in Tasks :
        /\ op[t].kind = "transfer_token" /\ Done(t) /\ op[t].wait
        /\ balance[t] >= op[t].amount /\ op[t].amount > 0
        =>
        /\ observed[t] = "status1" => result[t] = Returned(t)
        /\ result[t].status = "ok" =>
              /\ receipt[t] = "status1" /\ hist[t].funds >= TxFee
              /\ token[Sender(t)] =
                    IF op[t].to = Sender(t) THEN balance[t] ELSE balance[t] - op[t].amount
              /\ op[t].to # Sender(t) => token[op[t].to] = InitToken + op[t].amount

\* C12 witness: a confirmed transfer of the sender's whole balance to the
\* other account.
C12_Witness ==
    \E t \in Tasks :
        /\ op[t].kind = "transfer_token" /\ op[t].wait /\ result[t] = Returned(t)
        /\ op[t].to # Sender(t) /\ op[t].amount = InitToken
        /\ token[Sender(t)] = 0 /\ token[op[t].to] = InitToken + InitToken

\* C13: burn_token compares the balance it read with the amount: below the
\* amount it ends with InsufficientFundsError after the balance read alone
\* (no nonce, no estimate, nothing signed or broadcast); otherwise it enters
\* the shared write path (Account.from_key, then the nonce read).
C13_BurnPreFlight ==
    \A t \in Tasks :
        op[t].kind = "burn_token" /\ balance[t] # -1 /\ op[t].amount > 0 =>
            IF balance[t] < op[t].amount
            THEN /\ Done(t) /\ result[t].err = "InsufficientFundsError"
                 /\ calls[t] = <<"from_key", "balanceOf", "balance_check">>
                 /\ ~Acquired(t) /\ ~Signed(t) /\ t \notin pool /\ receipt[t] = "none"
            ELSE /\ result[t].err # "InsufficientFundsError"
                 /\ IsPrefix(<<"from_key", "balanceOf", "balance_check", "from_key">>,
                             calls[t])
                 /\ pc[t] = "get_transaction_count" \/ Count(calls[t], "get_transaction_count") = 1

\* C13 witness: a burn of more than the balance was refused, nothing sent.
C13_Witness ==
    \E t \in Tasks :
        /\ op[t].kind = "burn_token" /\ balance[t] = InitToken
        /\ op[t].amount = InitToken + 1
        /\ result[t].err = "InsufficientFundsError" /\ ~Acquired(t)

\* The stages at which the node (or the contract on it) decides.
NodeStages == {"get_transaction_count", "gas_price", "chain_id", "estimate_gas",
               "send_raw_transaction", "wait_for_transaction_receipt"}

\* C14: mint_token never reads a token balance, never compares one and never
\* ends with InsufficientFundsError; given a well-formed recipient and key it
\* goes straight to the shared write path; a sender who is not the owner is
\* refused by the contract only (at the gas estimate or in the receipt),
\* and never gets a success receipt.
C14_MintNoPreCheck ==
    \A t \in Tasks :
        op[t].kind = "mint_token" =>
            /\ Count(calls[t], "balanceOf") = 0 /\ Count(calls[t], "balance_check") = 0
            /\ pc[t] # "balanceOf" /\ balance[t] = -1
            /\ result[t].err # "InsufficientFundsError"
            /\ ValidAddress(op[t].to) /\ ValidKey(op[t].key) =>
                  /\ IsPrefix(<<"to_checksum_address", "from_key">>, calls[t])
                  /\ pc[t] = "get_transaction_count"
                        \/ Count(calls[t], "get_transaction_count") = 1
                  /\ Sender(t) # Owner =>
                        /\ receipt[t] # "status1"
                        /\ Done(t) => result[t].status = "error" /\ fault[t] \in NodeStages

\* C14 witness: the owner, holding fewer tokens than the amount, minted it
\* to the other account and the receipt is a success.
C14_Witness ==
    \E t \in Tasks :
        /\ op[t].kind = "mint_token" /\ Sender(t) = Owner /\ op[t].to # Owner
        /\ op[t].amount = InitToken + 1 /\ receipt[t] = "status1"
        /\ token[op[t].to] = InitToken + op[t].amount /\ balance[t] = -1

\* C17: a write operation called without waiting returns the hash with the
\* broadcast as its last stage, without asking for a receipt; an operation
\* whose wait timed out has ended with its one signed transaction broadcast
\* once, and that transaction is still with the node: pending, or mined.
C17_NoWaitReturnsTimeoutLeavesTx ==
    \A t \in Tasks :
        IsWrite(t) /\ Broadcast(t) =>
            /\ ~op[t].wait =>
                  /\ Done(t) /\ result[t] = Returned(t)
                  /\ Count(calls[t], "wait_for_transaction_receipt") = 0
                  /\ observed[t] = "none"
                  /\ calls[t][Len(calls[t])] = "send_raw_transaction"
            /\ observed[t] \in TimeoutOutcomes =>
                  /\ Done(t) /\ result[t].status = "error"
                  /\ calls[t][Len(calls[t])] = "wait_for_transaction_receipt"
                  /\ Count(calls[t], "sign_transaction") = 1
                  /\ Count(calls[t], "send_raw_transaction") = 1
                  /\ t \in pool \/ receipt[t] # "none"

\* C17 witness: the wait timed out, the operation ended with the error, and
\* the transaction was mined afterwards with a success receipt.
C17_Witness ==
    \E t \in Tasks :
        /\ IsWrite(t) /\ Done(t) /\ observed[t] \in TimeoutOutcomes
        /\ result[t].err = "TransactionFailedError" /\ receipt[t] = "status1"

\* C18: a native transfer never asks for a gas estimate and is signed with
\* the gas limit 21000; a contract transaction is signed with the limit
\* computed from the one estimate asked for it; both are signed after one
\* gas price query of their own.
C18_NativeFixedContractEstimated ==
    \A t \in Tasks :
        IsWrite(t) =>
            /\ op[t].kind = "transfer_eth" =>
                  Count(calls[t], "estimate_gas") = 0 /\ pc[t] # "estimate_gas"
            /\ Signed(t) =>
                  /\ Count(calls[t], "gas_price") = 1
                  /\ IF op[t].kind = "transfer_eth"
                     THEN gas[t].limit = NativeGasLimit
                     ELSE /\ Count(calls[t], "estimate_gas") = 1
                          /\ gas[t].estimate \in GasEstimates
                          /\ gas[t].limit = GasLimit(gas[t].estimate)

\* C18 witness: a native transfer was broadcast with the gas limit 21000.
C18_Witness ==
    \E t \in Tasks :
        /\ op[t].kind = "transfer_eth" /\ Broadcast(t) /\ t \in pool
        /\ gas[t].limit = NativeGasLimit /\ Count(calls[t], "gas_price") = 1

\* C15: a plugin constructed while the node is unreachable holds no service
\* and no database manager, the failure is logged, and with an address and
\* a URL configured what the constructor raised is ConnectionError (logged
\* as critical); no command ever enters an operation of the service.
C15_UnreachableNodeNoService ==
    ~plugin.reachable =>
        /\ ~plugin.eth_service /\ ~plugin.db_manager
        /\ plugin.raised # "none" /\ plugin.log # "info_loaded"
        /\ plugin.config.rpc_node_url # "" /\ plugin.config.contract_address # "" =>
              plugin.raised = "ConnectionError" /\ plugin.log = "critical_cannot_connect"
        /\ \A t \in Tasks : pc[t] = "idle" /\ calls[t] = <<>>

\* C15 witness: the configuration is complete, the node unreachable, and a
\* command has been handled without a service.
C15_Witness ==
    /\ ~plugin.reachable /\ plugin.config = GoodConfig
    /\ plugin.raised = "ConnectionError" /\ ~plugin.eth_service
    /\ \E t \in Tasks : cmd[t].at \in {"done", "crashed"}

\* The replies that tell the user the transaction failed.
FailureReplies == {"transfer_failed_on_chain_funds_returned", "transfer_failed_internal",
                   "transfer_insufficient_tokens", "withdraw_failed_internal",
                   "withdraw_insufficient_tokens"}
\* What transfer_token raises when it fails before the broadcast.
PreBroadcastFailures ==
    {Raised("InsufficientFundsError", "insufficient_token_balance", "none"),
     Raised("EthereumServiceError", "balance_query_failed", "NodeError"),
     Raised("InvalidAddress", "malformed", "none"),
     Raised("ContractLogicError", "execution_reverted", "none"),
     NodeError}
ReplyOf(kind, r) == IF kind = "transfer" THEN TransferReply(r) ELSE WithdrawReply(r)

\* C16 (as claimed): when the confirmation wait of a transfer or withdrawal
\* timed out, the last reply does not say the transaction failed (or that
\* funds were returned) and is none of the replies the command gives when
\* transfer_token fails before the broadcast.
C16_TimeoutReplyDistinct ==
    \A t \in Tasks :
        /\ cmd[t].kind \in {"transfer", "withdraw"} /\ cmd[t].at = "done"
        /\ observed[t] \in TimeoutOutcomes
        =>
        /\ LastReply(t) \notin FailureReplies
        /\ LastReply(t) \notin {ReplyOf(cmd[t].kind, r) : r \in PreBroadcastFailures}

\* The check-in commands of user u for day d whose reward mint the node took.
RewardMints(u, d) ==
    {t \in Tasks : /\ cmd[t].kind = "check_in" /\ cmd[t].user = u /\ cmd[t].day = d
                   /\ Broadcast(t)}

\* C19 (as claimed): for every user and day, at most one check-in reward
\* mint is broadcast.
C19_OneRewardMintPerDay ==
    \A u \in Users, d \in 0..MaxDay : Cardinality(RewardMints(u, d)) <= 1

\* C20: last_check_in of a user's row changes only in the step in which a
\* check-in handler of that user, whose mint_token call returned without
\* error, commits; then last_check_in becomes the current day and nothing
\* else of the row changes.
C20_LastCheckInOnlyAfterMint ==
    [][\A u \in Users :
          wallets'[u].last_check_in # wallets[u].last_check_in =>
              /\ \E t \in Tasks :
                    /\ CameBack(t, "check_in") /\ cmd[t].user = u
                    /\ result[t] = Returned(t)
                    /\ cmd'[t].at = "done"
              /\ wallets'[u] = [wallets[u] EXCEPT !.last_check_in = today]]_vars

\* C20 witness: a check-in ended with the success reply and the user's
\* last_check_in is set; another check-in of the user ended with the
\* failure reply.
C20_Witness ==
    \E t, v \in Tasks :
        /\ cmd[t].kind = "check_in" /\ LastReply(t) = "check_in_success"
        /\ wallets[cmd[t].user].last_check_in # -1
        /\ cmd[v].kind = "check_in" /\ cmd[v].user = cmd[t].user
        /\ LastReply(v) = "check_in_failed"

\* The registration commands of user u whose gas-fee transfer the node took.
GasFeeTransfers(u) ==
    {t \in Tasks : /\ cmd[t].kind = "register" /\ cmd[t].user = u
                   /\ op[t].kind = "transfer_eth" /\ Broadcast(t)}
\* The registration commands of user u that stored a wallet row.
StoredWallets(u) ==
    {t \in Tasks : /\ cmd[t].kind = "register" /\ cmd[t].user = u
                   /\ LastReply(t) = "register_success"}

\* C21 (as claimed): over all registration commands of a user, at most one
\* stores a wallet row and at most one initial gas-fee transfer is
\* broadcast; a registration command answered with "already registered"
\* has made no call to the chain service.
C21_OneWalletOneGasFeeTransfer ==
    /\ \A u \in Users : /\ Cardinality(StoredWallets(u)) <= 1
                        /\ Cardinality(GasFeeTransfers(u)) <= 1
    /\ \A t \in Tasks : LastReply(t) = "already_registered" => calls[t] = <<>>

\* The configuration asks for an initial gas-fee transfer.
FeeConfigured ==
    plugin.config.owner_private_key # "" /\ plugin.config.registration_gas_fee_eth > 0

\* C22: a wallet row appears only in a step of a registration handler of
\* that user which, when an owner key is configured and the fee is
\* positive, has had its gas-fee transfer to the new account return without
\* error (broadcast and confirmed); the step after a transfer that raised
\* writes nothing and replies a failure, and no row of the user exists then
\* unless another registration of the user stored it.
C22_WalletOnlyAfterGasFeeTransfer ==
    /\ [][\A u \in Users :
             (\/ wallets'[u].registered # wallets[u].registered
              \/ wallets'[u].address # wallets[u].address) =>
                \E t \in Tasks :
                   /\ cmd[t].kind = "register" /\ cmd[t].user = u
                   /\ cmd'[t].at = "done" /\ cmd[t].at # "done"
                   /\ ~wallets[u].registered /\ wallets'[u].registered
                   /\ wallets'[u].address = NewAccount(t)
                   /\ IF FeeConfigured
                      THEN /\ CameBack(t, "register")
                           /\ result[t] = Returned(t)
                           /\ op[t].kind = "transfer_eth" /\ op[t].to = NewAccount(t)
                           /\ op[t].amount = plugin.config.registration_gas_fee_eth
                           /\ Broadcast(t) /\ receipt[t] = "status1"
                      ELSE calls[t] = <<>>]_vars
    /\ [][\A t \in Tasks :
             CameBack(t, "register") /\ result[t].status = "error" /\ cmd'[t] # cmd[t] =>
                /\ wallets' = wallets
                /\ reply'[t] = Append(reply[t], RegisterFailure(result[t]))]_vars
    /\ [](\A t \in Tasks :
             /\ cmd[t].kind = "register" /\ cmd[t].at = "done"
             /\ result[t].status = "error"
             /\ StoredWallets(cmd[t].user) = {}
             => ~wallets[cmd[t].user].registered)

\* C22 witness: one registration of a user ended with the gas-transfer
\* failure reply, and another, whose transfer was confirmed, stored the row.
C22_Witness ==
    \E t, v \in Tasks :
        /\ cmd[v].kind = "register" /\ LastReply(v) = "register_failed_gas_transfer"
        /\ cmd[t].kind = "register" /\ cmd[t].user = cmd[v].user
        /\ LastReply(t) = "register_success" /\ result[t] = Returned(t)
        /\ wallets[cmd[t].user].registered
        /\ wallets[cmd[t].user].address = NewAccount(t)

\* The replies of transfer_command to a command that fails validation.
ValidationReplies ==
    {"mention_required", "amount_not_positive", "cannot_pay_yourself",
     "sender_not_registered", "receiver_not_registered"}

\* C23: a transfer command answered with a validation error has made no
\* call to the service; a transfer command that has called the service
\* called transfer_token, with the sender's stored key, the receiver's
\* stored address and the typed amount, and the amount is positive, a user
\* is mentioned who is not the sender, and both have a wallet row.
C23_TransferValidatedBeforeChain ==
    \A t \in Tasks :
        cmd[t].kind = "transfer" =>
            /\ LastReply(t) \in ValidationReplies =>
                  /\ cmd[t].at = "done"
                  /\ calls[t] = <<>> /\ op[t] = NoOp /\ pc[t] = "idle"
            /\ (cmd[t].target = "none" \/ cmd[t].amount <= 0
                   \/ cmd[t].user = cmd[t].target) =>
                  /\ calls[t] = <<>> /\ op[t] = NoOp /\ pc[t] = "idle"
            /\ op[t] # NoOp =>
                  /\ op[t].kind = "transfer_token"
                  /\ cmd[t].amount > 0
                  /\ cmd[t].user \in Users /\ cmd[t].target \in Users
                  /\ cmd[t].user # cmd[t].target
                  /\ wallets[cmd[t].user].registered
                  /\ wallets[cmd[t].target].registered
                  /\ op[t].key = WalletKey(cmd[t].user)
                  /\ op[t].to \in {Unread, WalletAddress(cmd[t].target)}
                  /\ op[t].amount \in {0, cmd[t].amount}

\* C23 witness: a transfer of a positive amount was broadcast and answered
\* with success, and another transfer command was refused by validation.
C23_Witness ==
    \E t, v \in Tasks :
        /\ cmd[t].kind = "transfer" /\ op[t].kind = "transfer_token" /\ Broadcast(t)
        /\ op[t].amount = cmd[t].amount /\ op[t].amount > 0
        /\ LastReply(t) = "transfer_success"
        /\ cmd[v].kind = "transfer" /\ LastReply(v) \in ValidationReplies

\* Plugin initialization has failed: eth_service or db_manager is unset.
InitFailed == ~plugin.eth_service \/ ~plugin.db_manager

\* C24 (as claimed): after a failed initialization every command whose
\* handler is over has replied the initialization-failure message, and only
\* that, has not run into the missing service, and has made no call to the
\* chain service and no change to the wallets table.
C24_FailedInitRepliesFailure ==
    InitFailed =>
        /\ \A t \in Tasks :
              cmd[t].kind # "none" /\ cmd[t].at \in {"done", "crashed"} =>
                 /\ cmd[t].at = "done"
                 /\ reply[t] = <<"init_failed">>
                 /\ calls[t] = <<>>
        /\ wallets = NoWallets

====
